---- MODULE Spec2Model ----
(***************************************************************************)
(* Model of the metadata table editor (src/src/App.vue).                   *)
(*                                                                         *)
(* Strings that the program concatenates or matches with a regular         *)
(* expression (the return URL, cell values, the revision URL) are          *)
(* sequences of tokens, so that concatenation is \o and the regex /\/$/    *)
(* looks at the last token.  Strings that are only compared (field names,  *)
(* the metadata URL, notification texts) are TLA+ strings.                 *)
(* A JavaScript object (a row) is a sequence of <<key, value>> pairs in    *)
(* insertion order.                                                        *)
(***************************************************************************)
EXTENDS Integers, Sequences, FiniteSets, TLC

\* ------------------------------------------------------------------ bounds
MaxUploads == 2
MaxReloads == 1
MaxLoads == 1

\* ------------------------------------------------- generic sequence helpers
Range(s) == {s[i] : i \in 1..Len(s)}

SeqMap(Op(_), s) == [i \in 1..Len(s) |-> Op(s[i])]

RECURSIVE SeqFilter(_, _)
SeqFilter(s, keep) ==
  IF s = <<>> THEN <<>>
  ELSE IF Head(s) \in keep THEN <<Head(s)>> \o SeqFilter(Tail(s), keep)
       ELSE SeqFilter(Tail(s), keep)

Perms(s) ==
  {p \in [1..Len(s) -> Range(s)] : \A i, j \in 1..Len(s) : i # j => p[i] # p[j]}

\* --------------------------------------------------- JavaScript row objects
\* the value of a property that an object does not have
Undefined == <<"<undefined>">>

EmptyString == <<>>

\* JavaScript truthiness of a string-or-undefined value
Truthy(v) == v # Undefined /\ v # EmptyString

Keys(row) == [i \in 1..Len(row) |-> row[i][1]]

HasOwnProperty(row, k) == \E i \in 1..Len(row) : row[i][1] = k

GetProp(row, k) ==
  IF HasOwnProperty(row, k)
  THEN row[CHOOSE i \in 1..Len(row) : row[i][1] = k][2]
  ELSE Undefined

\* row[k] = v : overwrite in place, or append a new key
SetProp(row, k, v) ==
  IF HasOwnProperty(row, k)
  THEN [i \in 1..Len(row) |-> IF row[i][1] = k THEN <<k, v>> ELSE row[i]]
  ELSE Append(row, <<k, v>>)

\* String.prototype.toLowerCase on the field names of the model
ToLowerCase(h) ==
  CASE h = "ID" -> "id"
    [] h = "Id" -> "id"
    [] h = "submissionId" -> "submissionid"
    [] h = "SubmissionID" -> "submissionid"
    [] h = "SampleID" -> "sampleid"
    [] h = "accessionVersion" -> "accessionversion"
    [] OTHER -> h

\* ------------------------------------------------------------- JSON texts
\* JSON.stringify / JSON.parse of the persisted state.  A JSON text is a
\* tagged tree: <<"str", s>>, <<"arr", items>>, <<"obj", members>>.
JStr(s) == <<"str", s>>
JArr(items) == <<"arr", items>>
JObj(members) == <<"obj", members>>

StringifyRow(row) ==
  JObj([i \in 1..Len(row) |-> <<row[i][1], JStr(row[i][2])>>])

StringifyColumn(c) ==
  JObj(<< <<"field", JStr(c.field)>>, <<"header", JStr(c.header)>> >>)

JSONstringify(state) ==
  JObj(<< <<"tableData", JArr(SeqMap(StringifyRow, state.tableData))>>,
          <<"allColumns", JArr(SeqMap(StringifyColumn, state.allColumns))>>,
          <<"selectedColumns", JArr(SeqMap(JStr, state.selectedColumns))>>,
          <<"metadataUrl", JStr(state.metadataUrl)>> >>)

\* the member of a JSON object with the given name
JMember(obj, name) ==
  obj[2][CHOOSE i \in 1..Len(obj[2]) : obj[2][i][1] = name][2]

ParseRow(obj) == [i \in 1..Len(obj[2]) |-> <<obj[2][i][1], obj[2][i][2][2]>>]

ParseColumn(obj) ==
  [field |-> JMember(obj, "field")[2], header |-> JMember(obj, "header")[2]]

ParseStr(j) == j[2]

JSONparse(text) ==
  [tableData |-> SeqMap(ParseRow, JMember(text, "tableData")[2]),
   allColumns |-> SeqMap(ParseColumn, JMember(text, "allColumns")[2]),
   selectedColumns |-> SeqMap(ParseStr, JMember(text, "selectedColumns")[2]),
   metadataUrl |-> JMember(text, "metadataUrl")[2]]

\* --------------------------------------------------------------- the state
VARIABLES
  query,                     \* window.location.search, fixed for the page
  metadataUrl,               \* ref metadataUrl
  tableData,                 \* ref tableData
  allColumns,                \* ref allColumns
  selectedColumns,           \* ref selectedColumns
  storage,                   \* localStorage item 'metadata-table-editor-state'
  loads,                     \* Papa.parse downloads in flight, per URL
  keycloak,                  \* module variable keycloak (the identity client)
  instances,                 \* identity clients constructed by this page
  isAuthenticated,           \* ref isAuthenticated
  authenticationInProgress,  \* ref authenticationInProgress
  initCaller,                \* who awaits keycloak.init: -1 nobody, 0 onMounted, i upload i
  up,                        \* the uploadMetadata invocations
  lastToast,                 \* the notification added last
  reloads                    \* page loads after the first

vars == <<query, metadataUrl, tableData, allColumns, selectedColumns, storage,
          loads, keycloak, instances, isAuthenticated,
          authenticationInProgress, initCaller, up, lastToast, reloads>>

tableVars == <<metadataUrl, tableData, allColumns, selectedColumns>>
authVars == <<keycloak, instances, isAuthenticated, authenticationInProgress,
              initCaller>>

\* ------------------------------------------------------- the environment
NoItem == <<>>          \* localStorage.getItem returns null
NoToast == [severity |-> "none", summary |-> "none", detail |-> <<>>]

\* u1 serves a table, u0 an empty body, u2 a header line without data lines
Urls == {"u1", "u0", "u2"}

\* what the file host serves at each URL, as Papa.parse returns it
\* (header: true): one object per data line, keyed by the header line
Remote(u) ==
  CASE u = "u1" -> << << <<"accessionVersion", <<"A.1">> >>,
                         <<"SampleID", <<"S1">> >> >> >>
    [] OTHER -> <<>>

\* the parse errors Papa.parse reports for the file at each URL; it reports
\* them in results.errors and still calls complete (a body without lines has
\* no rows and no delimiter to detect)
ParseErrors(u) ==
  CASE u = "u0" -> <<"UndetectableDelimiter">>
    [] OTHER -> <<>>

\* the fields of the header line of the file at each URL (results.meta.fields)
Header(u) ==
  CASE u = "u1" -> <<"accessionVersion", "SampleID">>
    [] u = "u2" -> <<"foo">>
    [] OTHER -> <<>>

\* values the user types into a cell
EditValues == {<<"v">>}

\* group lists the submission service answers with
GroupLists == {<<>>, <<[groupId |-> "7"]>>, <<[groupId |-> "8"], [groupId |-> "7"]>>}

\* the query strings the page is opened with: every parameter present (the
\* return URL without and with a trailing slash, with and without a table to
\* load at startup), and each upload parameter missing in turn
FullQuery ==
  [returnUrl |-> <<"https://api.example", "/">>, organism |-> <<"flu">>,
   inputFasta |-> "fa", authEndpoint |-> "kc", authRealm |-> "r",
   authClientId |-> "c", inputMetadata |-> "u1"]

QueryStrings ==
  {[FullQuery EXCEPT !.returnUrl = r, !.inputMetadata = m] :
     r \in {<<"https://api.example">>, <<"https://api.example", "/">>},
     m \in {"", "u1"}}
  \cup {[FullQuery EXCEPT !.returnUrl = <<>>],
        [FullQuery EXCEPT !.organism = <<>>],
        [FullQuery EXCEPT !.inputFasta = ""],
        [FullQuery EXCEPT !.authEndpoint = ""],
        [FullQuery EXCEPT !.authRealm = ""],
        [FullQuery EXCEPT !.authClientId = ""]}

Idle == [pc |-> "idle", requests |-> <<>>, toasts |-> <<>>, auth |-> "none",
         groups |-> "none", fasta |-> "none", groupList |-> <<>>,
         post |-> "none", url |-> <<>>, data |-> <<>>,
         body |-> [header |-> <<>>, lines |-> <<>>]]

TotalLoads(l) == l["u0"] + l["u1"] + l["u2"]

\* ------------------------------------------------------ computed properties
visibleColumns ==
  SeqFilter(SeqMap(LAMBDA c : c.field, allColumns), Range(selectedColumns))

hasAuthParamsOf(q) ==
  /\ Truthy(q.returnUrl)
  /\ Truthy(q.organism)
  /\ q.authEndpoint # ""
  /\ q.authRealm # ""
  /\ q.authClientId # ""

hasAuthParams == hasAuthParamsOf(query)

\* the block v-if="tableData.length > 0" that holds the table and its buttons
TableShown == Len(tableData) > 0

\* -------------------------------------------------------------- persistence
\* the watch callback: store the three watched refs and the current URL
Persist(td, ac, sc, url) ==
  JSONstringify([tableData |-> td, allColumns |-> ac, selectedColumns |-> sc,
                 metadataUrl |-> url])

\* ------------------------------------------------------------------ startup
\* the restore without its assignment to metadataUrl
OnMounted_ForgetsUrl(q, item) ==
  LET state == JSONparse(item)
      restored == item # NoItem
      fresh == ~restored /\ q.inputMetadata # ""
      auth == hasAuthParamsOf(q)
  IN [metadataUrl |-> IF fresh THEN q.inputMetadata ELSE "",
      tableData |-> IF restored THEN state.tableData ELSE <<>>,
      allColumns |-> IF restored THEN state.allColumns ELSE <<>>,
      selectedColumns |-> IF restored THEN state.selectedColumns ELSE <<>>,
      storage |-> IF restored
                  THEN Persist(state.tableData, state.allColumns,
                               state.selectedColumns, "")
                  ELSE NoItem,
      loads |-> [u \in Urls |-> IF fresh /\ u = q.inputMetadata THEN 1 ELSE 0],
      keycloak |-> [created |-> auth, authenticated |-> FALSE, logins |-> 0],
      instances |-> IF auth THEN 1 ELSE 0,
      authenticationInProgress |-> auth,
      initCaller |-> IF auth THEN 0 ELSE -1]

\* a startup whose session check keeps its client to itself
OnMounted_LocalClient(q, item) ==
  LET state == JSONparse(item)
      restored == item # NoItem
      fresh == ~restored /\ q.inputMetadata # ""
      auth == hasAuthParamsOf(q)
  IN [metadataUrl |-> IF restored THEN state.metadataUrl
                      ELSE IF fresh THEN q.inputMetadata ELSE "",
      tableData |-> IF restored THEN state.tableData ELSE <<>>,
      allColumns |-> IF restored THEN state.allColumns ELSE <<>>,
      selectedColumns |-> IF restored THEN state.selectedColumns ELSE <<>>,
      storage |-> IF restored
                  THEN Persist(state.tableData, state.allColumns,
                               state.selectedColumns, state.metadataUrl)
                  ELSE NoItem,
      loads |-> [u \in Urls |-> IF fresh /\ u = q.inputMetadata THEN 1 ELSE 0],
      keycloak |-> [created |-> FALSE, authenticated |-> FALSE, logins |-> 0],
      instances |-> IF auth THEN 1 ELSE 0,
      authenticationInProgress |-> auth,
      initCaller |-> IF auth THEN 0 ELSE -1]

\* the state onMounted leaves behind, up to its first await, followed by the
\* watch callback when the restore assigned the watched refs
OnMounted(q, item) ==
  LET state == JSONparse(item)
      restored == item # NoItem
      fresh == ~restored /\ q.inputMetadata # ""
      auth == hasAuthParamsOf(q)
  IN [metadataUrl |-> IF restored THEN state.metadataUrl
                      ELSE IF fresh THEN q.inputMetadata ELSE "",
      tableData |-> IF restored THEN state.tableData ELSE <<>>,
      allColumns |-> IF restored THEN state.allColumns ELSE <<>>,
      selectedColumns |-> IF restored THEN state.selectedColumns ELSE <<>>,
      storage |-> IF restored
                  THEN Persist(state.tableData, state.allColumns,
                               state.selectedColumns, state.metadataUrl)
                  ELSE NoItem,
      loads |-> [u \in Urls |-> IF fresh /\ u = q.inputMetadata THEN 1 ELSE 0],
      keycloak |-> [created |-> auth, authenticated |-> FALSE, logins |-> 0],
      instances |-> IF auth THEN 1 ELSE 0,
      authenticationInProgress |-> auth,
      initCaller |-> IF auth THEN 0 ELSE -1]

Init ==
  /\ query \in QueryStrings
  /\ LET m == OnMounted(query, NoItem)
     IN /\ metadataUrl = m.metadataUrl
        /\ tableData = m.tableData
        /\ allColumns = m.allColumns
        /\ selectedColumns = m.selectedColumns
        /\ storage = m.storage
        /\ loads = m.loads
        /\ keycloak = m.keycloak
        /\ instances = m.instances
        /\ authenticationInProgress = m.authenticationInProgress
        /\ initCaller = m.initCaller
  /\ isAuthenticated = FALSE
  /\ up = [i \in 1..MaxUploads |-> Idle]
  /\ lastToast = NoToast
  /\ reloads = 0

\* the user reloads the page, or a login redirect comes back to it: the old
\* page's pending callbacks are gone, localStorage stays
PageReload ==
  /\ reloads < MaxReloads
  /\ reloads' = reloads + 1
  /\ LET m == OnMounted(query, storage)
     IN /\ metadataUrl' = m.metadataUrl
        /\ tableData' = m.tableData
        /\ allColumns' = m.allColumns
        /\ selectedColumns' = m.selectedColumns
        /\ storage' = m.storage
        /\ loads' = m.loads
        /\ keycloak' = m.keycloak
        /\ instances' = m.instances
        /\ authenticationInProgress' = m.authenticationInProgress
        /\ initCaller' = m.initCaller
  /\ isAuthenticated' = FALSE
  /\ up' = [i \in 1..MaxUploads |->
              IF up[i].pc \in {"idle", "done"} THEN up[i]
              ELSE [up[i] EXCEPT !.pc = "unloaded"]]
  /\ lastToast' = NoToast
  /\ UNCHANGED query

\* ------------------------------------------------------------ notifications
Toast(sev, sum, det) == [severity |-> sev, summary |-> sum, detail |-> det]

LoadedToast == Toast("success", "Success", <<"Metadata loaded successfully">>)
LoadErrorToast == Toast("error", "Error", <<"Failed to load or parse metadata">>)
CellToast(v) == Toast("success", "Cell Updated", <<"Value changed to \"">> \o v \o <<"\"">>)
ClearedToast == Toast("warn", "Local Storage Cleared",
                      <<"Please reload the page to see the changes">>)
ConfigToast == Toast("error", "Error", <<"Missing URL parameters for upload">>)
AuthParamsToast == Toast("error", "Error", <<"Missing authentication parameters">>)
AuthFailedToast == Toast("error", "Authentication Failed", <<"Could not authenticate user">>)
UploadErrorToast == Toast("error", "Error", <<"An error occurred during upload">>)
UploadedToast == Toast("success", "Success", <<"Metadata uploaded successfully">>)
SsoOkToast == Toast("success", "Authentication Successful", <<"You are now authenticated">>)
SsoNoToast == Toast("info", "Authentication Available",
                    <<"Click Upload to authenticate when ready">>)
SsoErrToast == Toast("warn", "Authentication Available",
                     <<"Authentication setup complete. Click Upload to sign in.">>)

\* ------------------------------------------------------------- table loading
\* the text field bound to metadataUrl
EditMetadataUrl(u) ==
  /\ u # metadataUrl
  /\ metadataUrl' = u
  /\ UNCHANGED <<query, tableData, allColumns, selectedColumns, storage, loads,
                 authVars, up, lastToast, reloads>>

\* loadMetadata up to the start of the download
loadMetadata ==
  /\ metadataUrl # ""
  /\ TotalLoads(loads) < MaxLoads
  /\ loads' = [loads EXCEPT ![metadataUrl] = @ + 1]
  /\ UNCHANGED <<query, tableVars, storage, authVars, up, lastToast, reloads>>

\* the button "Load Metadata" (disabled while the URL field is empty)
LoadClick == loadMetadata

\* the button "Reset", shown with the table
resetTable == TableShown /\ loadMetadata

\* a completion that replaces the rows and keeps the column definitions and
\* the selection it finds
LoadComplete_KeepsColumns(u) ==
  /\ loads[u] > 0
  /\ loads' = [loads EXCEPT ![u] = @ - 1]
  /\ tableData' = Remote(u)
  /\ UNCHANGED <<allColumns, selectedColumns>>
  /\ lastToast' = LoadedToast
  /\ storage' = Persist(tableData', allColumns', selectedColumns', metadataUrl)
  /\ UNCHANGED <<query, metadataUrl, authVars, up, reloads>>

\* a completion that empties the column definitions of a file without data
\* lines and leaves the selection
LoadComplete_ClearsColumnsOnly(u) ==
  /\ loads[u] > 0
  /\ loads' = [loads EXCEPT ![u] = @ - 1]
  /\ LET data == Remote(u)
         fields == Keys(data[1])
     IN /\ tableData' = data
        /\ IF Len(data) > 0
           THEN /\ allColumns' = SeqMap(LAMBDA f : [field |-> f, header |-> f], fields)
                /\ selectedColumns' = fields
           ELSE /\ allColumns' = <<>>
                /\ UNCHANGED selectedColumns
  /\ lastToast' = LoadedToast
  /\ storage' = Persist(tableData', allColumns', selectedColumns', metadataUrl)
  /\ UNCHANGED <<query, metadataUrl, authVars, up, reloads>>

\* Papa.parse calls complete(results)
LoadComplete(u) ==
  /\ loads[u] > 0
  /\ loads' = [loads EXCEPT ![u] = @ - 1]
  /\ LET data == Remote(u)
         fields == Keys(data[1])
     IN /\ tableData' = data
        /\ IF Len(data) > 0
           THEN /\ allColumns' = SeqMap(LAMBDA f : [field |-> f, header |-> f], fields)
                /\ selectedColumns' = fields
           ELSE UNCHANGED <<allColumns, selectedColumns>>
  /\ lastToast' = LoadedToast
  /\ storage' = Persist(tableData', allColumns', selectedColumns', metadataUrl)
  /\ UNCHANGED <<query, metadataUrl, authVars, up, reloads>>

\* Papa.parse calls error(error)
LoadError(u) ==
  /\ loads[u] > 0
  /\ loads' = [loads EXCEPT ![u] = @ - 1]
  /\ lastToast' = LoadErrorToast
  /\ UNCHANGED <<query, tableVars, storage, authVars, up, reloads>>

\* ------------------------------------------------------------- table editing
\* a watcher that is not deep: a write inside a row triggers nothing
WriteTriggers_Shallow(row, field, newValue) == FALSE

\* a reactive write triggers the deep watcher when it adds a key or changes
\* the value; writing the value a cell already holds triggers nothing
WriteTriggers(row, field, newValue) == GetProp(row, field) # newValue

onCellEditComplete(r, field, newValue) ==
  /\ TableShown
  /\ r \in 1..Len(tableData)
  /\ field \in Range(visibleColumns)
  /\ tableData' = [tableData EXCEPT ![r] = SetProp(@, field, newValue)]
  /\ lastToast' = CellToast(newValue)
  /\ storage' = IF WriteTriggers(tableData[r], field, newValue)
                THEN Persist(tableData', allColumns, selectedColumns, metadataUrl)
                ELSE storage
  /\ UNCHANGED <<query, metadataUrl, allColumns, selectedColumns, loads,
                 authVars, up, reloads>>

\* the column orders the table widget reports after a drag and drop: the
\* widget is given the visible columns only (Column v-for over visibleColumns),
\* and a drop on the dragged column's own place reports nothing
ReorderEvents ==
  LET shown == SeqFilter(allColumns,
                 {c \in Range(allColumns) : c.field \in Range(selectedColumns)})
  IN Perms(shown) \ {shown}

onColReorder(columns) ==
  /\ TableShown
  /\ allColumns' = columns
  /\ storage' = Persist(tableData, allColumns', selectedColumns, metadataUrl)
  /\ UNCHANGED <<query, metadataUrl, tableData, selectedColumns, loads,
                 authVars, up, lastToast, reloads>>

\* the MultiSelect bound to selectedColumns: toggle one option
ToggleColumn(f) ==
  /\ TableShown
  /\ f \in {c.field : c \in Range(allColumns)}
  /\ selectedColumns' = IF f \in Range(selectedColumns)
                        THEN SeqFilter(selectedColumns, Range(selectedColumns) \ {f})
                        ELSE Append(selectedColumns, f)
  /\ storage' = Persist(tableData, allColumns, selectedColumns', metadataUrl)
  /\ UNCHANGED <<query, metadataUrl, tableData, allColumns, loads, authVars,
                 up, lastToast, reloads>>

\* a Clear Storage that empties the table as well
clearLocalStorage_Resets ==
  /\ TableShown
  /\ storage' = NoItem
  /\ lastToast' = ClearedToast
  /\ tableData' = <<>>
  /\ UNCHANGED <<query, metadataUrl, allColumns, selectedColumns, loads,
                 authVars, up, reloads>>

clearLocalStorage ==
  /\ TableShown
  /\ storage' = NoItem
  /\ lastToast' = ClearedToast
  /\ UNCHANGED <<query, tableVars, loads, authVars, up, reloads>>

\* ------------------------------------------------- upload: pure functions
\* the return URL taken as it is
TrimTrailingSlash_Never(s) == s

\* returnUrl.replace(/\/$/, '')
TrimTrailingSlash(s) ==
  IF Len(s) > 0 /\ s[Len(s)] = "/" THEN SubSeq(s, 1, Len(s) - 1) ELSE s

revisionUrl(returnUrl, organism, groupId) ==
  TrimTrailingSlash(returnUrl) \o <<"/">> \o organism
    \o <<"/revise?groupId=", groupId, "&dataUseTermsType=OPEN">>

\* the callback with an unconditional else branch: a prior id is lost
newRow_Overwrite(row) ==
  LET accession == GetProp(row, "accessionVersion")
      sample == GetProp(row, "SampleID")
  IN IF Truthy(accession) /\ Truthy(sample)
     THEN SetProp(row, "id", accession \o <<"|">> \o sample)
     ELSE SetProp(row, "id", EmptyString)

\* the callback of tableData.value.map: a copy of the row with its id set
newRow(row) ==
  LET accession == GetProp(row, "accessionVersion")
      sample == GetProp(row, "SampleID")
  IN IF Truthy(accession) /\ Truthy(sample)
     THEN SetProp(row, "id", accession \o <<"|">> \o sample)
     ELSE IF ~HasOwnProperty(row, "id")
          THEN SetProp(row, "id", EmptyString)
          ELSE row

dataForUpload(rows) == SeqMap(newRow, rows)

\* the header with a case-sensitive comparison against "id"
headersForUpload_CaseSensitive(columns) ==
  LET originalHeaders == SeqMap(LAMBDA c : c.field, columns)
  IN <<"id">> \o SeqFilter(originalHeaders,
                           {h \in Range(originalHeaders) :
                              h # "id" /\ h # "submissionId"})

headersForUpload(columns) ==
  LET originalHeaders == SeqMap(LAMBDA c : c.field, columns)
  IN <<"id">> \o SeqFilter(originalHeaders,
                           {h \in Range(originalHeaders) :
                              ToLowerCase(h) # "id" /\ h # "submissionId"})

\* Papa.unparse(rows, {columns}): the header line, then per row the values of
\* the listed fields, an absent field giving an empty cell
unparse(rows, columns) ==
  [header |-> columns,
   lines |-> [i \in 1..Len(rows) |->
               [j \in 1..Len(columns) |->
                 IF HasOwnProperty(rows[i], columns[j])
                 THEN GetProp(rows[i], columns[j]) ELSE EmptyString]]]

\* ----------------------------------------------------------- authentication
\* one upload invocation ends with a notification, or silently
Finish(u, toasts) == [u EXCEPT !.pc = "done", !.toasts = @ \o toasts]

\* uploadMetadata after ensureAuthenticated returned true: both fetches are
\* started by the one Promise.all expression
StartFetches(u) ==
  [u EXCEPT !.pc = "awaitFetches", !.auth = "ok",
            !.groups = "pending", !.fasta = "pending",
            !.requests = @ \o <<"groups", "fasta">>]

\* ensureAuthenticated from "if (!keycloak.authenticated)" on, for upload i
AfterInit(u, kc) ==
  IF ~kc.authenticated
  THEN [u EXCEPT !.pc = "awaitLogin", !.requests = Append(@, "login")]
  ELSE StartFetches(u)

\* the client after the same lines: keycloak.login is called on it when it is
\* not authenticated (logins counts the calls of keycloak.login)
LoginCalled(kc) ==
  IF ~kc.authenticated THEN [kc EXCEPT !.logins = @ + 1] ELSE kc

\* a session check that sends the user to the login page itself
InitSettle_LoginRequired(outcome) ==
  /\ initCaller # -1
  /\ LET kc == [keycloak EXCEPT !.authenticated = (outcome = "authenticated")]
     IN keycloak' = LoginCalled(kc)
  /\ LET t == CASE outcome = "authenticated" -> SsoOkToast
                [] outcome = "unauthenticated" -> SsoNoToast
                [] OTHER -> SsoErrToast
     IN /\ isAuthenticated' = (outcome = "authenticated")
        /\ lastToast' = t
        /\ up' = IF initCaller = 0 THEN up
                 ELSE [up EXCEPT ![initCaller] =
                         AfterInit([@ EXCEPT !.toasts = Append(@, t)], keycloak')]
  /\ authenticationInProgress' = FALSE
  /\ initCaller' = -1
  /\ UNCHANGED <<query, tableVars, storage, loads, instances, reloads>>

\* a session check that resets authenticationInProgress at the end of its try
\* block only
InitSettle_NoFinally(outcome) ==
  /\ initCaller # -1
  /\ LET kc == [keycloak EXCEPT !.authenticated = (outcome = "authenticated")]
     IN keycloak' = IF initCaller = 0 THEN kc ELSE LoginCalled(kc)
  /\ LET t == CASE outcome = "authenticated" -> SsoOkToast
                [] outcome = "unauthenticated" -> SsoNoToast
                [] OTHER -> SsoErrToast
     IN /\ isAuthenticated' = (outcome = "authenticated")
        /\ lastToast' = t
        /\ up' = IF initCaller = 0 THEN up
                 ELSE [up EXCEPT ![initCaller] =
                         AfterInit([@ EXCEPT !.toasts = Append(@, t)], keycloak')]
  /\ authenticationInProgress' = (outcome = "rejected")
  /\ initCaller' = -1
  /\ UNCHANGED <<query, tableVars, storage, loads, instances, reloads>>

\* keycloak.init of initializeAuthentication settles
InitSettle(outcome) ==
  /\ initCaller # -1
  /\ LET kc == [keycloak EXCEPT !.authenticated = (outcome = "authenticated")]
     IN keycloak' = IF initCaller = 0 THEN kc ELSE LoginCalled(kc)
  /\ LET t == CASE outcome = "authenticated" -> SsoOkToast
                [] outcome = "unauthenticated" -> SsoNoToast
                [] OTHER -> SsoErrToast
     IN /\ isAuthenticated' = (outcome = "authenticated")
        /\ lastToast' = t
        /\ up' = IF initCaller = 0 THEN up
                 ELSE [up EXCEPT ![initCaller] =
                         AfterInit([@ EXCEPT !.toasts = Append(@, t)], keycloak')]
  /\ authenticationInProgress' = FALSE
  /\ initCaller' = -1
  /\ UNCHANGED <<query, tableVars, storage, loads, instances, reloads>>

\* a button that is also disabled while an upload is under way
UploadEnabled_NoReentry ==
  /\ TableShown /\ hasAuthParams /\ ~authenticationInProgress
  /\ \A j \in 1..MaxUploads : up[j].pc \in {"idle", "done", "unloaded"}

\* the button "Upload": rendered with the table when hasAuthParams, disabled
\* while authenticationInProgress
UploadEnabled == TableShown /\ hasAuthParams /\ ~authenticationInProgress

\* the check without its input-fasta part
ParamsPresent_NoFasta(q) ==
  Truthy(q.returnUrl) /\ Truthy(q.organism)

ParamsPresent(q) ==
  Truthy(q.returnUrl) /\ Truthy(q.organism) /\ q.inputFasta # ""

\* uploadMetadata up to its first suspension
uploadMetadata(i) ==
  /\ UploadEnabled
  /\ up[i].pc = "idle"
  /\ \A j \in 1..(i - 1) : up[j].pc # "idle"
  /\ IF ~ParamsPresent(query)
     THEN /\ up' = [up EXCEPT ![i] = Finish(@, <<ConfigToast>>)]
          /\ lastToast' = ConfigToast
          /\ UNCHANGED authVars
     ELSE IF ~hasAuthParams
     THEN /\ up' = [up EXCEPT ![i] =
                      Finish([@ EXCEPT !.auth = "noParams"], <<AuthParamsToast>>)]
          /\ lastToast' = AuthParamsToast
          /\ UNCHANGED authVars
     ELSE IF isAuthenticated /\ keycloak.created /\ keycloak.authenticated
     THEN \* validateAndRefreshToken calls keycloak.updateToken(30)
          /\ up' = [up EXCEPT ![i] = [@ EXCEPT !.pc = "awaitUpdateToken",
                                               !.requests = Append(@, "updateToken")]]
          /\ UNCHANGED <<authVars, lastToast>>
     ELSE IF ~keycloak.created
     THEN \* initializeAuthentication constructs the client and calls init
          /\ keycloak' = [created |-> TRUE, authenticated |-> FALSE, logins |-> 0]
          /\ instances' = instances + 1
          /\ authenticationInProgress' = TRUE
          /\ initCaller' = i
          /\ up' = [up EXCEPT ![i] = [@ EXCEPT !.pc = "awaitInit",
                                               !.requests = Append(@, "init")]]
          /\ UNCHANGED <<isAuthenticated, lastToast>>
     ELSE /\ up' = [up EXCEPT ![i] = AfterInit(@, keycloak)]
          /\ keycloak' = LoginCalled(keycloak)
          /\ isAuthenticated' = (keycloak.authenticated \/ isAuthenticated)
          /\ UNCHANGED <<instances, authenticationInProgress,
                         initCaller, lastToast>>
  /\ UNCHANGED <<query, tableVars, storage, loads, reloads>>

\* keycloak.updateToken settles: refreshed, still valid, or rejected (with
\* the client dropping its tokens, or keeping them on a transport error)
UpdateTokenSettle(i, outcome) ==
  /\ up[i].pc = "awaitUpdateToken"
  /\ IF outcome \in {"refreshed", "valid"}
     THEN /\ isAuthenticated' = TRUE
          /\ up' = [up EXCEPT ![i] = StartFetches(@)]
          /\ UNCHANGED keycloak
     ELSE /\ isAuthenticated' = FALSE
          /\ up' = [up EXCEPT ![i] = Finish([@ EXCEPT !.auth = "refreshFailed"], <<>>)]
          /\ keycloak' = [keycloak EXCEPT
                            !.authenticated = IF outcome = "cleared" THEN FALSE ELSE @]
  /\ UNCHANGED <<query, tableVars, storage, loads, instances,
                 authenticationInProgress, initCaller, lastToast, reloads>>

\* an invocation that goes on to the fetches once keycloak.login resolves
LoginSettle_Continues(i, outcome) ==
  /\ up[i].pc = "awaitLogin"
  /\ IF outcome = "resolved"
     THEN /\ up' = [up EXCEPT ![i] = StartFetches(@)]
          /\ UNCHANGED lastToast
     ELSE /\ up' = [up EXCEPT ![i] =
                      Finish([@ EXCEPT !.auth = "loginRejected"], <<AuthFailedToast>>)]
          /\ lastToast' = AuthFailedToast
  /\ UNCHANGED <<query, tableVars, storage, loads, authVars, reloads>>

\* keycloak.login settles without the page having navigated away
LoginSettle(i, outcome) ==
  /\ up[i].pc = "awaitLogin"
  /\ IF outcome = "resolved"
     THEN /\ up' = [up EXCEPT ![i] = Finish([@ EXCEPT !.auth = "loginReturned"], <<>>)]
          /\ UNCHANGED lastToast
     ELSE /\ up' = [up EXCEPT ![i] =
                      Finish([@ EXCEPT !.auth = "loginRejected"], <<AuthFailedToast>>)]
          /\ lastToast' = AuthFailedToast
  /\ UNCHANGED <<query, tableVars, storage, loads, authVars, reloads>>

\* --------------------------------------------------- upload: network steps
Fail(u) == Finish(u, <<UploadErrorToast>>)

\* the join without the check of fastaResponse.ok
AfterJoin_NoFastaCheck(u) ==
  IF u.groups # "ok" THEN Fail(u)
  ELSE [u EXCEPT !.pc = "awaitJson"]

\* the code after "await Promise.all" once both responses are there
AfterJoin(u) ==
  IF u.groups # "ok" THEN Fail(u)
  ELSE IF u.fasta # "ok" THEN Fail(u)
  ELSE [u EXCEPT !.pc = "awaitJson"]

\* Promise.all: rejected as soon as one fetch is, fulfilled when both are
Join(u) ==
  IF "rejected" \in {u.groups, u.fasta} THEN Fail(u)
  ELSE IF "pending" \in {u.groups, u.fasta} THEN u
  ELSE AfterJoin(u)

\* the group lookup answers: a response (ok or not), or a network failure
GroupsSettle(i, r) ==
  /\ up[i].pc = "awaitFetches"
  /\ up[i].groups = "pending"
  /\ up' = [up EXCEPT ![i] = Join([@ EXCEPT !.groups = r])]
  /\ lastToast' = IF up'[i].pc = "done" THEN UploadErrorToast ELSE lastToast
  /\ UNCHANGED <<query, tableVars, storage, loads, authVars, reloads>>

\* the sequence-file fetch answers
FastaSettle(i, r) ==
  /\ up[i].pc = "awaitFetches"
  /\ up[i].fasta = "pending"
  /\ up' = [up EXCEPT ![i] = Join([@ EXCEPT !.fasta = r])]
  /\ lastToast' = IF up'[i].pc = "done" THEN UploadErrorToast ELSE lastToast
  /\ UNCHANGED <<query, tableVars, storage, loads, authVars, reloads>>

\* groupsResponse.json() settles with the group list
JsonSettle(i, groups) ==
  /\ up[i].pc = "awaitJson"
  /\ up' = [up EXCEPT ![i] = [@ EXCEPT !.pc = "awaitBlob", !.groupList = groups]]
  /\ UNCHANGED <<query, tableVars, storage, loads, authVars, lastToast, reloads>>

\* groupsResponse.json() rejects: the body is not JSON
JsonError(i) ==
  /\ up[i].pc = "awaitJson"
  /\ up' = [up EXCEPT ![i] = Fail(@)]
  /\ lastToast' = UploadErrorToast
  /\ UNCHANGED <<query, tableVars, storage, loads, authVars, reloads>>

\* a submission that serialises the rows of the source file, not the rows in
\* memory
Submit_FromSource(u) ==
  IF Len(u.groupList) = 0
  THEN Fail(u)
  ELSE LET groupId == u.groupList[1].groupId
           data == dataForUpload(Remote(metadataUrl))
           columns == headersForUpload(allColumns)
       IN [u EXCEPT !.pc = "awaitPost",
                    !.url = revisionUrl(query.returnUrl, query.organism, groupId),
                    !.data = data,
                    !.body = unparse(data, columns),
                    !.requests = Append(@, "post")]

\* a submission that reads the group id with groups[0]?.groupId
Submit_UndefinedGroup(u) ==
  LET groupId == IF Len(u.groupList) = 0 THEN "undefined" ELSE u.groupList[1].groupId
      data == dataForUpload(tableData)
      columns == headersForUpload(allColumns)
  IN [u EXCEPT !.pc = "awaitPost",
               !.url = revisionUrl(query.returnUrl, query.organism, groupId),
               !.data = data,
               !.body = unparse(data, columns),
               !.requests = Append(@, "post")]

\* from "groups[0].groupId" to the fetch of the POST
Submit(u) ==
  IF Len(u.groupList) = 0
  THEN Fail(u)      \* groups[0] is undefined: TypeError, caught
  ELSE LET groupId == u.groupList[1].groupId
           data == dataForUpload(tableData)
           columns == headersForUpload(allColumns)
       IN [u EXCEPT !.pc = "awaitPost",
                    !.url = revisionUrl(query.returnUrl, query.organism, groupId),
                    !.data = data,
                    !.body = unparse(data, columns),
                    !.requests = Append(@, "post")]

\* a submission that sets the id on the rows of tableData themselves, which
\* the watcher then persists
BlobSettle_InPlace(i) ==
  /\ up[i].pc = "awaitBlob"
  /\ up' = [up EXCEPT ![i] = Submit(@)]
  /\ lastToast' = IF up'[i].pc = "done" THEN UploadErrorToast ELSE lastToast
  /\ tableData' = IF up'[i].pc = "done" THEN tableData ELSE dataForUpload(tableData)
  /\ storage' = IF tableData' = tableData THEN storage
                ELSE Persist(tableData', allColumns, selectedColumns, metadataUrl)
  /\ UNCHANGED <<query, metadataUrl, allColumns, selectedColumns, loads,
                 authVars, reloads>>

\* fastaResponse.blob() settles
BlobSettle(i) ==
  /\ up[i].pc = "awaitBlob"
  /\ up' = [up EXCEPT ![i] = Submit(@)]
  /\ lastToast' = IF up'[i].pc = "done" THEN UploadErrorToast ELSE lastToast
  /\ UNCHANGED <<query, tableVars, storage, loads, authVars, reloads>>

\* fastaResponse.blob() rejects
BlobError(i) ==
  /\ up[i].pc = "awaitBlob"
  /\ up' = [up EXCEPT ![i] = Fail(@)]
  /\ lastToast' = UploadErrorToast
  /\ UNCHANGED <<query, tableVars, storage, loads, authVars, reloads>>

\* the verdict without the check of uploadResponse.ok
AfterPost_AlwaysSuccess(u, r) ==
  Finish([u EXCEPT !.post = r], <<UploadedToast>>)

\* the code after "await fetch(revisionUrl, ...)": uploadResponse.ok decides
AfterPost(u, r) ==
  IF r = "ok" THEN Finish([u EXCEPT !.post = r], <<UploadedToast>>)
  ELSE Fail([u EXCEPT !.post = r])

\* the POST answers
PostSettle(i, r) ==
  /\ up[i].pc = "awaitPost"
  /\ up' = [up EXCEPT ![i] = AfterPost(@, r)]
  /\ lastToast' = up'[i].toasts[Len(up'[i].toasts)]
  /\ UNCHANGED <<query, tableVars, storage, loads, authVars, reloads>>

\* -------------------------------------------------------------- the machine
Uploads == 1..MaxUploads
FetchOutcomes == {"ok", "notok", "rejected"}

\* loading, editing and persisting the table
NextTable ==
  \/ PageReload
  \/ \E u \in Urls \cup {""} : EditMetadataUrl(u)
  \/ LoadClick
  \/ resetTable
  \/ \E u \in Urls : LoadComplete(u)
  \/ \E u \in Urls : LoadError(u)
  \/ \E r \in 1..Len(tableData), f \in Range(visibleColumns), v \in EditValues :
       onCellEditComplete(r, f, v)
  \/ \E columns \in ReorderEvents : onColReorder(columns)
  \/ \E c \in Range(allColumns) : ToggleColumn(c.field)
  \/ clearLocalStorage
  \/ \E o \in {"authenticated", "unauthenticated", "rejected"} : InitSettle(o)

\* authenticating and uploading, on a page that loads its table at startup
NextUpload ==
  \/ PageReload
  \/ \E u \in Urls : LoadComplete(u)
  \/ \E u \in Urls : LoadError(u)
  \/ \E o \in {"authenticated", "unauthenticated", "rejected"} : InitSettle(o)
  \/ \E i \in Uploads : uploadMetadata(i)
  \/ \E i \in Uploads, o \in {"refreshed", "valid", "cleared", "rejected"} :
       UpdateTokenSettle(i, o)
  \/ \E i \in Uploads, o \in {"resolved", "rejected"} : LoginSettle(i, o)
  \/ \E i \in Uploads, r \in FetchOutcomes : GroupsSettle(i, r)
  \/ \E i \in Uploads, r \in FetchOutcomes : FastaSettle(i, r)
  \/ \E i \in Uploads, g \in GroupLists : JsonSettle(i, g)
  \/ \E i \in Uploads : JsonError(i)
  \/ \E i \in Uploads : BlobSettle(i)
  \/ \E i \in Uploads : BlobError(i)
  \/ \E i \in Uploads, r \in FetchOutcomes : PostSettle(i, r)

Next == NextTable \/ NextUpload

\* the whole application
Spec == Init /\ [][Next]_vars

\* the table and its persisted snapshot, whatever the upload does
SpecTable == Init /\ [][NextTable]_vars

\* the upload orchestration over the table loaded at startup
SpecUpload == Init /\ [][NextUpload]_vars

\* the same, with an identity provider that answers keycloak.init in the end
SpecUploadFair ==
  /\ Init /\ [][NextUpload]_vars
  /\ WF_vars(\E o \in {"authenticated", "unauthenticated", "rejected"} : InitSettle(o))

\* the table under the buttons and the widget, the URL field left alone
NextReset ==
  \/ PageReload
  \/ LoadClick
  \/ resetTable
  \/ \E u \in Urls : LoadComplete(u)
  \/ \E u \in Urls : LoadError(u)
  \/ \E r \in 1..Len(tableData), f \in Range(visibleColumns), v \in EditValues :
       onCellEditComplete(r, f, v)
  \/ \E columns \in ReorderEvents : onColReorder(columns)
  \/ \E c \in Range(allColumns) : ToggleColumn(c.field)
  \/ clearLocalStorage
  \/ \E o \in {"authenticated", "unauthenticated", "rejected"} : InitSettle(o)

SpecReset == Init /\ [][NextReset]_vars

\* ------------------------------------------- the submission step on its own
\* the page has a table, the user is signed in, and an upload has received
\* both responses and the group list; the table and the column definitions
\* range over bounded sets
MaxColumns == 3

RowFields == <<"accessionVersion", "SampleID", "id", "foo">>

CellValues(f) ==
  CASE f = "accessionVersion" -> {EmptyString, <<"A.1">>}
    [] f = "SampleID" -> {EmptyString, <<"S1">>}
    [] f = "id" -> {EmptyString, <<"old">>}
    [] OTHER -> {<<"v">>}

\* a row holding the fields that the choice defines, in the order of RowFields
RowOf(choice) ==
  LET present == SeqFilter(RowFields, {f \in Range(RowFields) : choice[f] # Undefined})
  IN [i \in 1..Len(present) |-> <<present[i], choice[present[i]]>>]

SubmitRows ==
  {RowOf(choice) :
     choice \in {c \in [Range(RowFields) ->
                          {Undefined, EmptyString, <<"A.1">>, <<"S1">>, <<"old">>, <<"v">>}] :
                   \A f \in Range(RowFields) : c[f] \in CellValues(f) \cup {Undefined}}}

ColumnFields == {"id", "ID", "submissionId", "SubmissionID", "foo", "bar"}

ColumnsOf(fields) == SeqMap(LAMBDA f : [field |-> f, header |-> f], fields)

SubmitColumns ==
  {ColumnsOf(fs) :
     fs \in UNION {{p \in [1..n -> ColumnFields] :
                      \A a, b \in 1..n : a # b => p[a] # p[b]} : n \in 0..MaxColumns}}

DefaultRow == << <<"accessionVersion", <<"A.1">> >>, <<"SampleID", <<"S1">> >> >>

SubmitTables ==
  {[rows |-> <<r>>, columns |-> ColumnsOf(Keys(r))] : r \in SubmitRows}
  \cup {[rows |-> <<DefaultRow>>, columns |-> c] : c \in SubmitColumns}

SubmitQueries ==
  {[FullQuery EXCEPT !.returnUrl = r] :
     r \in {<<"https://api.example">>, <<"https://api.example", "/">>,
            <<"https://api.example", "/", "/">>}}

InitSubmit ==
  /\ query \in SubmitQueries
  /\ \E t \in SubmitTables :
       /\ tableData = t.rows
       /\ allColumns = t.columns
       /\ selectedColumns = SeqMap(LAMBDA c : c.field, t.columns)
  /\ metadataUrl = "u1"
  /\ storage = Persist(tableData, allColumns, selectedColumns, metadataUrl)
  /\ loads = [u \in Urls |-> 0]
  /\ keycloak = [created |-> TRUE, authenticated |-> TRUE, logins |-> 0]
  /\ instances = 1
  /\ isAuthenticated = TRUE
  /\ authenticationInProgress = FALSE
  /\ initCaller = -1
  /\ \E g \in GroupLists :
       up = [i \in Uploads |->
               IF i = 1
               THEN [Idle EXCEPT !.pc = "awaitBlob", !.auth = "ok",
                                 !.requests = <<"updateToken", "groups", "fasta">>,
                                 !.groups = "ok", !.fasta = "ok", !.groupList = g]
               ELSE Idle]
  /\ lastToast = SsoOkToast
  /\ reloads = 0

NextSubmit ==
  \/ \E i \in Uploads : BlobSettle(i)
  \/ \E i \in Uploads : BlobError(i)
  \/ \E i \in Uploads, r \in FetchOutcomes : PostSettle(i, r)

\* the submission step over arbitrary rows, columns and return URLs
SpecSubmit == InitSubmit /\ [][NextSubmit]_vars

\* ------------------------------------------------ the table widget on its own
\* the page right after loadMetadata completed on a file of three columns and
\* two lines; Papa.parse gives a line with fewer fields than the header a row
\* without the trailing keys
EditFields == <<"accessionVersion", "SampleID", "foo">>

EditRow(n) ==
  [i \in 1..n |-> <<EditFields[i], IF i = 1 THEN <<"A.1">> ELSE <<"S1">> >>]

EditTables == {<<EditRow(Len(EditFields)), EditRow(n)>> : n \in 1..Len(EditFields)}

InitEdit ==
  /\ query \in {q \in QueryStrings : ~hasAuthParamsOf(q) /\ q.inputMetadata = "u1"}
  /\ tableData \in EditTables
  /\ allColumns = SeqMap(LAMBDA f : [field |-> f, header |-> f], Keys(tableData[1]))
  /\ selectedColumns = Keys(tableData[1])
  /\ metadataUrl = query.inputMetadata
  /\ storage = Persist(tableData, allColumns, selectedColumns, metadataUrl)
  /\ loads = [u \in Urls |-> 0]
  /\ keycloak = [created |-> FALSE, authenticated |-> FALSE, logins |-> 0]
  /\ instances = 0
  /\ isAuthenticated = FALSE
  /\ authenticationInProgress = FALSE
  /\ initCaller = -1
  /\ up = [i \in 1..MaxUploads |-> Idle]
  /\ lastToast = LoadedToast
  /\ reloads = 0

NextEdit ==
  \/ \E r \in 1..Len(tableData), f \in Range(visibleColumns), v \in EditValues :
       onCellEditComplete(r, f, v)
  \/ \E columns \in ReorderEvents : onColReorder(columns)
  \/ \E c \in Range(allColumns) : ToggleColumn(c.field)

\* cell edits, column drags and visibility toggles over a loaded table
SpecEdit == InitEdit /\ [][NextEdit]_vars

\* ------------------------------------------ editing while an upload is under way
\* the signed-in user has loaded the table and clicked Upload: the token was
\* still valid and both fetches have been started
InitRace ==
  /\ query = FullQuery
  /\ metadataUrl = query.inputMetadata
  /\ tableData = Remote(metadataUrl)
  /\ allColumns = SeqMap(LAMBDA f : [field |-> f, header |-> f], Keys(tableData[1]))
  /\ selectedColumns = Keys(tableData[1])
  /\ storage = Persist(tableData, allColumns, selectedColumns, metadataUrl)
  /\ loads = [u \in Urls |-> 0]
  /\ keycloak = [created |-> TRUE, authenticated |-> TRUE, logins |-> 0]
  /\ instances = 1
  /\ isAuthenticated = TRUE
  /\ authenticationInProgress = FALSE
  /\ initCaller = -1
  /\ up = [i \in Uploads |->
             IF i = 1
             THEN StartFetches([Idle EXCEPT !.requests = <<"updateToken">>])
             ELSE Idle]
  /\ lastToast = SsoOkToast
  /\ reloads = 0

NextRace ==
  \/ \E r \in 1..Len(tableData), f \in Range(visibleColumns), v \in EditValues :
       onCellEditComplete(r, f, v)
  \/ \E columns \in ReorderEvents : onColReorder(columns)
  \/ \E c \in Range(allColumns) : ToggleColumn(c.field)
  \/ resetTable
  \/ \E u \in Urls : LoadComplete(u)
  \/ \E i \in Uploads, r \in FetchOutcomes : GroupsSettle(i, r)
  \/ \E i \in Uploads, r \in FetchOutcomes : FastaSettle(i, r)
  \/ \E i \in Uploads, g \in GroupLists : JsonSettle(i, g)
  \/ \E i \in Uploads : BlobSettle(i)
  \/ \E i \in Uploads, r \in FetchOutcomes : PostSettle(i, r)

\* one upload invocation and the table handlers, interleaved
SpecRace == InitRace /\ [][NextRace]_vars

\* ================================================================== claims
Requested(u, kind) == kind \in Range(u.requests)
Shown(u, severity) == \E k \in 1..Len(u.toasts) : u.toasts[k].severity = severity
Started(u) == u.pc # "idle"
Ended(u) == u.pc = "done"

MissingUploadParam ==
  query.returnUrl = <<>> \/ query.organism = <<>> \/ query.inputFasta = ""

\* C1: an upload invoked while return-url, organism or input-fasta is absent
\* shows the configuration error and issues no network request of any kind.
C1_MissingParamNoRequest ==
  \A i \in Uploads :
    Started(up[i]) /\ MissingUploadParam =>
      /\ up[i].requests = <<>>
      /\ up[i].toasts = <<ConfigToast>>
      /\ Ended(up[i])

C1_Witness ==
  \E i \in Uploads :
    /\ Ended(up[i])
    /\ query.inputFasta = ""
    /\ up[i].toasts = <<ConfigToast>>

TokenFailed(u) == u.auth \in {"refreshFailed", "loginRejected"}

\* C2: an upload whose token acquisition failed (refresh failed, login
\* rejected) has shown an authentication error notification and has issued
\* no group lookup, no sequence-file fetch and no POST.
C2_AuthFailureNotified ==
  \A i \in Uploads :
    Ended(up[i]) /\ TokenFailed(up[i]) =>
      /\ Shown(up[i], "error")
      /\ ~Requested(up[i], "groups")
      /\ ~Requested(up[i], "fasta")
      /\ ~Requested(up[i], "post")

\* the step of an upload that failed: the group lookup, the sequence-file
\* fetch or the POST (a rejected fetch, or a response that is not ok)
FailedStage(u) ==
  IF ~Ended(u) THEN "none"
  ELSE IF u.groups = "rejected" THEN "groups"
  ELSE IF u.fasta = "rejected" THEN "fasta"
  ELSE IF u.groups = "notok" /\ u.fasta # "pending" THEN "groups"
  ELSE IF u.fasta = "notok" /\ u.groups # "pending" THEN "fasta"
  ELSE IF u.post \in {"notok", "rejected"} THEN "post"
  ELSE "none"

\* C3: two uploads that failed at different steps (group lookup, sequence-file
\* fetch, POST) have shown different notifications.
C3_DistinctErrors ==
  \A i, j \in Uploads :
    /\ FailedStage(up[i]) # "none"
    /\ FailedStage(up[j]) # "none"
    /\ FailedStage(up[i]) # FailedStage(up[j])
    => up[i].toasts # up[j].toasts

Position(u, kind) == CHOOSE k \in 1..Len(u.requests) : u.requests[k] = kind

\* C4: within one upload the token is obtained before the two fetches start,
\* the group lookup and the sequence-file fetch start together, and the POST
\* is issued only after both returned a success status; when either fails or
\* is not ok there is no POST.
C4_Ordered ==
  \A i \in Uploads :
    LET u == up[i] IN
    /\ Requested(u, "groups") <=> Requested(u, "fasta")
    /\ Requested(u, "groups") =>
         /\ u.auth = "ok"
         /\ Position(u, "fasta") = Position(u, "groups") + 1
    /\ Requested(u, "post") =>
         /\ u.groups = "ok"
         /\ u.fasta = "ok"
         /\ Position(u, "post") > Position(u, "fasta")
    /\ (u.groups \in {"notok", "rejected"} \/ u.fasta \in {"notok", "rejected"})
         => ~Requested(u, "post")

C4_Witness ==
  \E i \in Uploads :
    /\ up[i].pc = "awaitPost"
    /\ up[i].requests = <<"updateToken", "groups", "fasta", "post">>

Count(u, kind) == Cardinality({k \in 1..Len(u.requests) : u.requests[k] = kind})

\* C5: an upload issues at most one POST; it shows the success notification
\* exactly when that POST returned a success status, a POST that did not
\* succeed gives an error notification, and no upload shows both a success
\* and an error notification.
C5_OnePostOneVerdict ==
  \A i \in Uploads :
    LET u == up[i] IN
    /\ Count(u, "post") <= 1
    /\ (UploadedToast \in Range(u.toasts)) <=> (u.post = "ok")
    /\ u.post \in {"notok", "rejected"} => Shown(u, "error")
    /\ ~(Shown(u, "success") /\ Shown(u, "error"))

C5_Witness ==
  \E i, j \in Uploads :
    /\ up[i].post = "ok" /\ up[i].toasts = <<UploadedToast>>
    /\ up[j].post = "notok" /\ up[j].toasts = <<UploadErrorToast>>

Posted(u) == Requested(u, "post")

BothPresent(row) ==
  /\ GetProp(row, "accessionVersion") \notin {Undefined, EmptyString}
  /\ GetProp(row, "SampleID") \notin {Undefined, EmptyString}

\* C6: in every uploaded row the id is accessionVersion|SampleID when both
\* are non-empty, else the prior id when the source row has one, else the
\* empty string; every other field is as in the source row.
C6_IdSynthesis ==
  \A i \in Uploads :
    Posted(up[i]) =>
      /\ Len(up[i].data) = Len(tableData)
      /\ \A r \in 1..Len(tableData) :
           LET src == tableData[r]
               new == up[i].data[r]
           IN /\ BothPresent(src) =>
                   GetProp(new, "id") = GetProp(src, "accessionVersion") \o <<"|">>
                                          \o GetProp(src, "SampleID")
              /\ ~BothPresent(src) /\ HasOwnProperty(src, "id") =>
                   GetProp(new, "id") = GetProp(src, "id")
              /\ ~BothPresent(src) /\ ~HasOwnProperty(src, "id") =>
                   GetProp(new, "id") = EmptyString
              /\ \A k \in (Range(Keys(src)) \cup Range(Keys(new))) \ {"id"} :
                   GetProp(new, k) = GetProp(src, k)

C6_Witness ==
  /\ Posted(up[1])
  /\ GetProp(tableData[1], "id") = <<"old">>
  /\ GetProp(tableData[1], "accessionVersion") = Undefined
  /\ GetProp(tableData[1], "SampleID") = <<"S1">>
  /\ GetProp(up[1].data[1], "id") = <<"old">>

Removed(f) == ToLowerCase(f) = "id" \/ f = "submissionId"

\* C7: the upload header is id followed by the fields of all column
\* definitions in their order, without the fields equal to id in any case and
\* without submissionId: id is first and occurs once, submissionId never.
C7_Header ==
  \A i \in Uploads :
    Posted(up[i]) =>
      LET h == up[i].body.header
          fields == [k \in 1..Len(allColumns) |-> allColumns[k].field]
          kept == {k \in 1..Len(fields) : ~Removed(fields[k])}
      IN /\ h[1] = "id"
         /\ Len(h) = 1 + Cardinality(kept)
         /\ \A k \in 2..Len(h) : h[k] # "id" /\ h[k] # "submissionId"
         /\ \A k \in 2..Len(h) : \E a \in kept : fields[a] = h[k]
         /\ \A k, l \in 2..Len(h) :
              k < l => \E a, b \in kept : a < b /\ fields[a] = h[k] /\ fields[b] = h[l]

C7_Witness ==
  /\ Posted(up[1])
  /\ [k \in 1..Len(allColumns) |-> allColumns[k].field] = <<"foo", "ID", "submissionId">>
  /\ up[1].body.header = <<"id", "foo">>

\* C8: the submission URL is the return URL without its trailing slash, then
\* /{organism}/revise?groupId={groupId}&dataUseTermsType=OPEN with the groupId
\* of the first group; a return URL with or without a trailing slash gives
\* exactly one slash between the base and the organism.
C8_RevisionUrl ==
  \A i \in Uploads :
    Posted(up[i]) =>
      LET r == query.returnUrl
          n == Len(r)
          base == IF r[n] = "/" THEN [k \in 1..(n - 1) |-> r[k]] ELSE r
          url == up[i].url
      IN /\ url = base \o <<"/">> \o query.organism
                    \o <<"/revise?groupId=", up[i].groupList[1].groupId,
                         "&dataUseTermsType=OPEN">>
         /\ r \in {<<"https://api.example">>, <<"https://api.example", "/">>} =>
              /\ url[1] = "https://api.example"
              /\ url[2] = "/"
              /\ url[3] = query.organism[1]

C8_Witness ==
  /\ Posted(up[1])
  /\ query.returnUrl = <<"https://api.example", "/">>
  /\ up[1].groupList = <<[groupId |-> "8"], [groupId |-> "7"]>>
  /\ up[1].url = <<"https://api.example", "/", "flu", "/revise?groupId=", "8",
                   "&dataUseTermsType=OPEN">>

\* the stored snapshot holds the rows, column definitions and selection that
\* are in memory
StoredMatches ==
  /\ storage # NoItem
  /\ JSONparse(storage).tableData = tableData
  /\ JSONparse(storage).allColumns = allColumns
  /\ JSONparse(storage).selectedColumns = selectedColumns

\* C9: a startup that finds a stored snapshot S makes the source URL, rows,
\* column definitions and selection those of S, starts no table load (also
\* when input-metadata is given) and leaves the stored snapshot equal to S.
C9_RestoreIsIdentity ==
  [][(reloads' # reloads /\ storage # NoItem) =>
       /\ metadataUrl' = JSONparse(storage).metadataUrl
       /\ tableData' = JSONparse(storage).tableData
       /\ allColumns' = JSONparse(storage).allColumns
       /\ selectedColumns' = JSONparse(storage).selectedColumns
       /\ \A u \in Urls : loads'[u] = 0
       /\ storage' = storage]_vars

C9_Witness ==
  /\ reloads = 1
  /\ lastToast = NoToast
  /\ query.inputMetadata = "u1"
  /\ storage # NoItem
  /\ \A u \in Urls : loads[u] = 0
  /\ metadataUrl = "u0"
  /\ GetProp(tableData[1], "SampleID") = <<"v">>
  /\ StoredMatches

EditStep == \E r \in 1..Len(tableData), f \in Range(visibleColumns), v \in EditValues :
              onCellEditComplete(r, f, v)
ReorderStep == \E columns \in ReorderEvents : onColReorder(columns)
ToggleStep == \E c \in Range(allColumns) : ToggleColumn(c.field)
LoadedStep == \E u \in Urls : LoadComplete(u)

\* C10 as stated: after every cell edit, column reorder, visibility change
\* and successful load the stored snapshot holds the rows, column
\* definitions and selection that are in memory.
C10_EveryEditPersisted ==
  [][(EditStep \/ ReorderStep \/ ToggleStep \/ LoadedStep) => StoredMatches']_vars

\* C10 as amended: after every column reorder, visibility change and
\* successful load, and after every cell edit that changes the value of the
\* cell, the stored snapshot holds the rows, column definitions and selection
\* that are in memory.
C10_ChangesPersisted ==
  [][((EditStep /\ tableData' # tableData) \/ ReorderStep \/ ToggleStep \/ LoadedStep)
       => StoredMatches']_vars

C10_Witness ==
  /\ lastToast = CellToast(<<"v">>)
  /\ GetProp(tableData[1], "SampleID") = <<"v">>
  /\ GetProp(tableData[1], "accessionVersion") = <<"A.1">>
  /\ StoredMatches

\* what loadMetadata leaves in memory after a download of u with rows
FreshRows(u) == Remote(u)
FreshColumns(u) == ColumnsOf(Keys(Remote(u)[1]))
FreshSelection(u) == Keys(Remote(u)[1])

\* C11: with the URL field left alone, whatever cells were edited, columns
\* dragged or hidden, a reload started from the shown table (the button Reset)
\* that completes leaves the rows, the column definitions and the selection a
\* fresh load of the source URL produces, and the stored snapshot holds
\* exactly that state.
C11_ResetRestoresSource ==
  [][\A u \in Urls :
       TableShown /\ LoadComplete(u) =>
         /\ u = metadataUrl
         /\ tableData' = FreshRows(u)
         /\ allColumns' = FreshColumns(u)
         /\ selectedColumns' = FreshSelection(u)
         /\ storage' = Persist(FreshRows(u), FreshColumns(u), FreshSelection(u), u)
         /\ StoredMatches']_vars

\* Reset was pressed on a table with an edited cell and a hidden column
C11_Witness ==
  /\ TableShown
  /\ loads[metadataUrl] = 1
  /\ tableData # FreshRows(metadataUrl)
  /\ selectedColumns # FreshSelection(metadataUrl)

\* C12: Clear Storage deletes the stored snapshot and leaves the source URL,
\* the rows, the column definitions and the selection in memory as they are.
C12_ClearKeepsMemory ==
  [][clearLocalStorage => storage' = NoItem /\ UNCHANGED tableVars]_vars

\* Clear Storage was pressed: the edited table is shown, nothing is stored
C12_Witness ==
  /\ TableShown
  /\ storage = NoItem
  /\ lastToast = ClearedToast
  /\ tableData # FreshRows("u1")

\* a table is shown and nothing is stored: Clear Storage was pressed and
\* nothing has been persisted since
Cleared == TableShown /\ storage = NoItem

\* C13: once Clear Storage was pressed, cell edits, column drags and
\* visibility changes leave the stored snapshot absent (it stays absent until
\* a load or reset), so a page reload after them restores nothing.
C13_ClearedUntilLoad ==
  [][Cleared /\ (EditStep \/ ReorderStep \/ ToggleStep) => storage' = NoItem]_vars

\* a table load fails: Papa.parse calls error, or it calls complete with
\* parse errors
LoadFails(u) == LoadError(u) \/ (LoadComplete(u) /\ ParseErrors(u) # <<>>)

\* C14: a table load that fails, by a fetch error or a parse error, shows an
\* error notification and leaves the rows, the column definitions, the
\* selection and the stored snapshot as they were.
C14_FailedLoadLeavesState ==
  [][\A u \in Urls :
       LoadFails(u) =>
         /\ lastToast'.severity = "error"
         /\ UNCHANGED <<tableData, allColumns, selectedColumns, storage>>]_vars

\* a step of an upload invocation
UploadStep == up' # up /\ reloads' = reloads

\* C15: no step of an upload invocation, whatever its outcome, changes the
\* rows, the column definitions, the selection, the source URL or the stored
\* snapshot; the ids are set on copies of the rows.
C15_UploadKeepsTable ==
  [][UploadStep => UNCHANGED <<tableVars, storage>>]_vars

\* an upload was posted with synthesised ids and succeeded, another one
\* failed, and the rows in memory and in the snapshot carry no id
C15_Witness ==
  /\ \E i \in Uploads :
       /\ Ended(up[i])
       /\ Shown(up[i], "success")
       /\ HasOwnProperty(up[i].data[1], "id")
  /\ \E i \in Uploads : Ended(up[i]) /\ Shown(up[i], "error")
  /\ ~HasOwnProperty(tableData[1], "id")
  /\ StoredMatches

KeySet(row) == Range(Keys(row))
FieldSet(columns) == {c.field : c \in Range(columns)}

\* C16: a cell edit, a column drag or a visibility change never changes the
\* number of rows, the key set of any row or the set of column-definition
\* fields (hidden columns included).
C16_NoRowOrColumnChange ==
  [][EditStep \/ ReorderStep \/ ToggleStep =>
       /\ Len(tableData') = Len(tableData)
       /\ \A r \in 1..Len(tableData) : KeySet(tableData'[r]) = KeySet(tableData[r])
       /\ FieldSet(allColumns') = FieldSet(allColumns)]_vars

\* C17: within one page lifetime at most one identity client is created,
\* whatever session checks and upload invocations happen; later calls use it.
C17_OneClient == instances <= 1

\* every upload of the page went through the client, and there is one client
C17_Witness ==
  /\ instances = 1
  /\ \A i \in Uploads :
       /\ up[i].pc # "unloaded"
       /\ Requested(up[i], "updateToken") \/ Requested(up[i], "login")
  /\ \E i \in Uploads : Requested(up[i], "login")

\* C18: keycloak.login is called only by a step of an upload invocation, which
\* then waits for it; the session check at startup and the completion of a
\* table load never call it.
C18_LoginOnlyFromUpload ==
  [][keycloak'.logins > keycloak.logins =>
       \E i \in Uploads :
         /\ up[i].pc \in {"idle", "awaitInit"}
         /\ up'[i].pc = "awaitLogin"
         /\ up'[i].requests = Append(up[i].requests, "login")]_vars

\* the session check found no session and showed its notice, and the login
\* was called by the upload the user started afterwards
C18_Witness ==
  /\ keycloak.logins = 1
  /\ ~keycloak.authenticated
  /\ \E i \in Uploads : up[i].pc = "awaitLogin"

\* C19: an upload invocation that called the interactive login issues no
\* group lookup, no sequence-file fetch and no POST and shows no success
\* notification, also after the login call has returned.
C19_LoginEndsUpload ==
  \A i \in Uploads :
    Requested(up[i], "login") =>
      /\ ~Requested(up[i], "groups")
      /\ ~Requested(up[i], "fasta")
      /\ ~Requested(up[i], "post")
      /\ ~Shown(up[i], "success")
      /\ up[i].pc \in {"awaitLogin", "done", "unloaded"}

\* the login call returned without navigating away and the invocation ended
C19_Witness ==
  \E i \in Uploads :
    /\ Ended(up[i])
    /\ up[i].auth = "loginReturned"
    /\ up[i].requests = <<"login">>

Suspended(u) == u.pc \notin {"idle", "done", "unloaded"}

\* C20: while an upload invocation is suspended on a response, the Upload
\* button stays usable: a further invocation can be started whenever the
\* table is shown, the authentication parameters are present and no session
\* check is under way.
C20_NoReentryGuard ==
  /\ TableShown /\ hasAuthParams /\ ~authenticationInProgress
  /\ \E j \in Uploads : Suspended(up[j])
  /\ \E i \in Uploads : up[i].pc = "idle"
  => ENABLED (\E i \in Uploads : uploadMetadata(i))

\* two overlapping invocations have both issued their POST
C20_Witness ==
  /\ up[1].pc = "awaitPost"
  /\ up[2].pc = "awaitPost"
  /\ Requested(up[1], "post") /\ Requested(up[2], "post")

\* C21: a load that completes without parse errors replaces the rows, the
\* column definitions and the selection: the column definitions are the fields
\* of the loaded file in source order and the selection holds all of them,
\* also when the file has a header line and no data lines.
C21_LoadReplacesAll ==
  [][\A u \in Urls :
       LoadComplete(u) /\ ParseErrors(u) = <<>> =>
         /\ tableData' = Remote(u)
         /\ allColumns' = ColumnsOf(Header(u))
         /\ selectedColumns' = Header(u)]_vars

\* C22: in every reachable state the selection of visible columns is a subset
\* of the fields of the column definitions, whatever loads, restores, cell
\* edits, column drags and visibility changes led to it.
C22_SelectionWithinColumns == Range(selectedColumns) \subseteq FieldSet(allColumns)

\* a restored page with dragged column definitions and one column hidden
C22_Witness ==
  /\ reloads = 1
  /\ TableShown
  /\ allColumns[1].field = "SampleID"
  /\ selectedColumns = <<"accessionVersion">>

\* both responses were fine, the group list is empty and the invocation ended
EndedOnEmptyList(u) ==
  /\ Ended(u)
  /\ u.groups = "ok" /\ u.fasta = "ok"
  /\ u.groupList = <<>>

\* C23: an upload invocation whose group lookup answered with an empty list
\* ends at the submission step without a POST, with an error notification,
\* and leaves the Upload button as it was: unless a session check is under way
\* (after a page reload), a further invocation can be started.
C23_EmptyGroupList ==
  /\ [][\A i \in Uploads :
          up[i].pc = "awaitBlob" /\ up[i].groupList = <<>> /\ BlobSettle(i) =>
            /\ Ended(up'[i])
            /\ ~Requested(up'[i], "post")
            /\ up'[i].toasts = Append(up[i].toasts, UploadErrorToast)
            /\ lastToast'.severity = "error"
            /\ UNCHANGED <<tableVars, authVars>>]_vars
  /\ [](\A i \in Uploads :
          EndedOnEmptyList(up[i]) =>
            /\ ~Requested(up[i], "post")
            /\ Shown(up[i], "error") /\ ~Shown(up[i], "success")
            /\ (~authenticationInProgress /\ \E j \in Uploads : up[j].pc = "idle") =>
                  ENABLED (\E j \in Uploads : uploadMetadata(j)))

\* the first upload ended on an empty group list, the one started after it
\* has issued its POST
C23_Witness ==
  /\ EndedOnEmptyList(up[1])
  /\ up[1].requests = <<"updateToken", "groups", "fasta">>
  /\ lastToast = UploadErrorToast
  /\ up[2].pc = "awaitPost"

\* C24: the uploaded metadata is built from the rows and the column
\* definitions in memory at the moment both responses are there and read
\* (the last await before the serialisation), so a cell edit, a column drag or
\* a load that completes before it is in the body; once the POST is issued its
\* body does not follow later changes of the table.
C24_SerialisedAtSubmit ==
  [][\A i \in Uploads :
       /\ BlobSettle(i) /\ up'[i].pc = "awaitPost" =>
            /\ up'[i].data = dataForUpload(tableData)
            /\ up'[i].body = unparse(dataForUpload(tableData),
                                     headersForUpload(allColumns))
       /\ Requested(up[i], "post") =>
            /\ up'[i].data = up[i].data
            /\ up'[i].body = up[i].body]_vars

\* the POST carries the cell typed and the column order made while the
\* fetches were in flight, and not the cell typed after it was issued
C24_Witness ==
  /\ Requested(up[1], "post")
  /\ GetProp(up[1].data[1], "SampleID") = <<"v">>
  /\ up[1].body.header = <<"id", "SampleID", "accessionVersion">>
  /\ GetProp(up[1].data[1], "accessionVersion") = <<"A.1">>
  /\ GetProp(tableData[1], "accessionVersion") = <<"v">>

\* C25: a stored snapshot with rows names the URL its rows were loaded from
\* (u1 is the only URL that serves rows).
C25_StoredUrlIsSource ==
  storage # NoItem /\ Len(JSONparse(storage).tableData) > 0 =>
    JSONparse(storage).metadataUrl = "u1"

\* C26: a session check that was started ends with authenticationInProgress
\* false, whatever keycloak.init reports, provided it settles; and while a
\* check is in progress no further check is started on the page.
C26_CheckEnds ==
  /\ (authenticationInProgress ~> ~authenticationInProgress)
  /\ [][authenticationInProgress /\ reloads' = reloads =>
          /\ instances' = instances
          /\ \A i \in Uploads : up'[i].requests = up[i].requests]_vars

\* the session check failed, the button is usable and an upload was started
C26_Witness ==
  /\ ~authenticationInProgress
  /\ instances = 1
  /\ \E i \in Uploads : up[i].toasts = <<>> /\ Requested(up[i], "login")
  /\ lastToast = SsoErrToast
====
